---- MODULE Spec2Model ----
(***************************************************************************)
(* A model of polyply's three-stage pipeline and of its topology reader:   *)
(*   - link resolution          (polyply/src/apply_links.py),   SpecLinks  *)
(*   - residue expansion        (polyply/src/map_to_molecule.py), SpecExpand*)
(*   - density-driven placement (polyply/src/build_system.py),  SpecBuild  *)
(*   - topology reading (polyply/src/top_parser.py, topology.py), SpecTop   *)
(* Each stage has its own initial condition and next-state relation; the   *)
(* variables of the other stages are held constant meanwhile.              *)
(***************************************************************************)
EXTENDS Integers, Sequences, FiniteSets, TLC

VARIABLES
    \* ---- link resolution (apply_links.py)
    ff,         \* force_field.links: mutated in place by the resolver
    mols,       \* the system's molecules: atom graph + residue graph each
    l_pc,       \* position in ApplyLinks.run_molecule: idle/edges/explicit/error
    l_mol,      \* index of the molecule run_molecule works on
    l_edge,     \* index of the next residue-graph edge of the for loop
    l_link,     \* index of the next link of the explicit-link loop
    l_cands,    \* zip(links, resids) still to try for the current edge
    l_err,      \* exception that reached the caller of run_molecule
    l_runs,     \* number of run_molecule calls started
    g_ff0,      \* history: the force field as parsed
    g_last,     \* history: the last candidate handed to apply_link_between_residues
    g_mols0,    \* history: the molecules as handed to the resolver
    g_run,      \* history: MatchErrors and applied candidates of the runs
    g_get,      \* history: the last call of _get_links and what it looked at
    \* ---- residue expansion (map_to_molecule.py)
    e_chain,    \* the residue names the meta molecule was built from
    e_meta,     \* the residue graph (MetaMolecule)
    e_mol,      \* new_mol, the atom graph being assembled
    e_pc,       \* position in add_blocks: first/loop/done
    e_todo,     \* list(meta_molecule.nodes.keys())[1:] still to visit
    e_stored,   \* meta_molecule.molecule
    g_exp,      \* history: the last expand_meta_graph call
    \* ---- placement (build_system.py)
    b_sizes,    \* number of atoms of each molecule of the topology
    b_supplied, \* the node positions as add_positions_from_file left them
    b_pc,       \* position in _compose_system: walk/done/crashed
    b_mol_idx,  \* mol_idx
    b_step,     \* step_count of _handle_random_walk
    b_table,    \* positions: the global position table (or None)
    b_maxdim,   \* self.maxdim, the box edge, as the fraction num/den
    b_nodepos,  \* molecule.nodes[node]["position"] per molecule and node
    b_rescales, \* history: number of _rescale_system calls
    \* ---- topology reading (top_parser.py, topology.py)
    t_pc,       \* parse/ioerror/parsed/keyerror/done
    t_n,        \* number of lines read
    t_last,     \* the line handed to dispatch last
    t_section,  \* self.section[-1]
    t_meta,     \* self.current_meta
    t_itp,      \* self.current_itp
    t_itp_lines,\* len(self.itp_lines)
    t_defines,  \* keys of topology.defines
    t_defaults, \* topology.defaults
    t_atom_types, \* topology.atom_types
    t_nonbond,  \* topology.nonbond_params
    t_types,    \* meta of the interactions of topology.types["bondtypes"]
    g_given     \* history: nonbond_params as the parser left them

lvars == <<ff, mols, l_pc, l_mol, l_edge, l_link, l_cands, l_err, l_runs,
           g_ff0, g_last, g_mols0, g_run, g_get>>
evars == <<e_chain, e_meta, e_mol, e_pc, e_todo, e_stored, g_exp>>
bvars == <<b_sizes, b_supplied, b_pc, b_mol_idx, b_step, b_table, b_maxdim, b_nodepos,
           b_rescales>>
tvars == <<t_pc, t_n, t_last, t_section, t_meta, t_itp, t_itp_lines, t_defines,
           t_defaults, t_atom_types, t_nonbond, t_types, g_given>>
vars == <<lvars, evars, bvars, tvars>>

\* ------------------------------------------------------------------------
\* Bounds of the model
\* ------------------------------------------------------------------------
\* longest residue chain of a molecule handed to the resolver
MaxRes == 3
\* number of run_molecule calls the driver makes
MaxRuns == 2
\* longest chain of residue names handed to the expander
MaxChain == 3
\* most molecules in a topology handed to the assembler
MaxMols == 3
\* self.maxiter: walk attempts of one _handle_random_walk call beyond the first
MaxIter == 2
\* rescales followed before the model stops looking
MaxRescale == 3
\* initial box edge (1.2 * _compute_box_size), in units of 0.1 nm
BoxEdge0 == 20

\* ------------------------------------------------------------------------
\* Generic helpers
\* ------------------------------------------------------------------------
Range(s) == {s[i] : i \in DOMAIN s}

RECURSIVE SortedSeq(_)
SortedSeq(S) ==
    IF S = {} THEN <<>>
    ELSE LET m == CHOOSE x \in S : \A y \in S : x <= y
         IN  <<m>> \o SortedSeq(S \ {m})

RECURSIVE Flatten(_)
Flatten(ss) == IF ss = <<>> THEN <<>> ELSE Head(ss) \o Flatten(Tail(ss))

\* ========================================================================
\* LINK RESOLUTION  (polyply/src/apply_links.py)
\* ========================================================================
\* Interaction kinds kept by a molecule / link, in dict order.
InterTypes == <<"bonds", "angles">>

\* A parameter is a literal or a deferred computation (a callable).
Lit(v) == [fn |-> FALSE, v |-> v]
Deferred == [fn |-> TRUE, v |-> 0]
NoRef == [l |-> 0, t |-> "none", k |-> 0]
\* vermouth Interaction(atoms, parameters, meta); ref # NoRef marks an entry
\* that IS the Interaction object of link ref.l (a shared, mutable list of
\* atoms), as appended by apply_explicit_link.
Inter(atoms, params) == [atoms |-> atoms, params |-> params, ref |-> NoRef]
PNode(an, rn, wild, o) ==
    [atomname |-> an, resname |-> rn, wild |-> wild, order |-> o, resid |-> 0]
Link(nodes, bonds, angles, explicit) ==
    [nodes |-> nodes, inter |-> [bonds |-> bonds, angles |-> angles],
     explicit |-> explicit]

\* ---- the force fields the resolver is run with
LinkA == Link(<<PNode("C2", {"A"}, FALSE, 0), PNode("C1", {"A"}, FALSE, 1)>>,
              <<Inter(<<1, 2>>, <<Lit(1), Deferred>>)>>, <<>>, "absent")
LinkAB == Link(<<PNode("C2", {"A", "B"}, FALSE, 0),
                 PNode("C1", {"A", "B"}, FALSE, 1)>>,
               <<Inter(<<1, 2>>, <<Lit(2)>>)>>, <<>>, "absent")
LinkMiss == Link(<<PNode("C9", {"A"}, FALSE, 0), PNode("C1", {"A"}, FALSE, 1)>>,
                 <<Inter(<<1, 2>>, <<Lit(3)>>)>>, <<>>, "absent")
LinkAngle == Link(<<PNode("C1", {"A"}, FALSE, 0), PNode("C2", {"A"}, FALSE, 1),
                    PNode("C1", {"A"}, FALSE, 2)>>,
                  <<>>, <<Inter(<<1, 2, 3>>, <<Lit(4)>>)>>, "absent")
LinkWild == Link(<<PNode("C2", {"A"}, FALSE, 0), PNode("C1", {"A"}, TRUE, 0)>>,
                 <<Inter(<<1, 2>>, <<Lit(5)>>)>>, <<>>, "absent")
LinkWild3 == Link(<<PNode("C1", {"A"}, FALSE, 0), PNode("C2", {"A"}, FALSE, 0),
                    PNode("C1", {"A"}, TRUE, 0)>>,
                  <<Inter(<<2, 3>>, <<Lit(11)>>)>>, <<>>, "absent")
LinkNoZero == Link(<<PNode("C2", {"A"}, FALSE, 1), PNode("C1", {"A"}, FALSE, 2)>>,
                   <<Inter(<<1, 2>>, <<Lit(6)>>)>>, <<>>, "absent")
LinkFalse == Link(<<PNode("C2", {"A"}, FALSE, 0), PNode("C1", {"A"}, FALSE, 1)>>,
                  <<Inter(<<1, 2>>, <<Lit(7)>>)>>, <<>>, "false")
LinkExp == Link(<<>>, <<Inter(<<2, 3>>, <<Lit(8)>>)>>, <<>>, "true")
LinkExpHi == Link(<<>>, <<Inter(<<4, 5>>, <<Lit(9)>>)>>, <<>>, "true")
LinkExpTwo == Link(<<>>, <<Inter(<<1, 2>>, <<Lit(10)>>)>>,
                   <<Inter(<<3, 4, 7>>, <<Lit(10)>>)>>, "true")
LinkLibrary == {LinkA, LinkAB, LinkMiss, LinkAngle, LinkWild, LinkWild3, LinkNoZero,
                LinkFalse, LinkExp, LinkExpHi, LinkExpTwo}
ForceFields == {<<a>> : a \in LinkLibrary}
               \cup {<<a, b>> : a \in LinkLibrary, b \in LinkLibrary}

\* ---- the molecules the resolver is run on: the output of the expander for
\* a chain of single-residue blocks.  Block A has atoms C1, C2; block B has
\* two atoms that share every attribute (both named C1).
ResAtomNames(resname) == IF resname = "A" THEN <<"C1", "C2">> ELSE <<"C1", "C1">>
ChainNames(n, last) == [i \in 1..n |-> IF i = n THEN last ELSE "A"]
LinearEdges(n) == [i \in 1..(n - 1) |-> <<i - 1, i>>]
BranchEdges(n) == [i \in 1..(n - 1) |-> IF i = n - 1 THEN <<0, i>> ELSE <<i - 1, i>>]
MetaOf(names, edges) == [n |-> Len(names), resname |-> names, edges |-> edges]
MolOf(names, edges) ==
    [atoms |-> [j \in 1..(2 * Len(names)) |->
                  [atomname |-> ResAtomNames(names[(j + 1) \div 2])[2 - (j % 2)],
                   resname |-> names[(j + 1) \div 2],
                   resid |-> (j + 1) \div 2]],
     inter |-> [bonds |-> [i \in 1..Len(names) |->
                             Inter(<<2 * i - 2, 2 * i - 1>>, <<Lit(0)>>)],
                angles |-> <<>>],
     edges |-> {{2 * i - 2, 2 * i - 1} : i \in 1..Len(names)},
     meta |-> MetaOf(names, edges)]
Molecules ==
    {MolOf(ChainNames(n, last), LinearEdges(n)) : n \in 2..MaxRes, last \in {"A", "B"}}
    \cup {MolOf(ChainNames(n, last), BranchEdges(n)) : n \in 3..MaxRes, last \in {"A", "B"}}
ShortMol == MolOf(<<"A", "A">>, LinearEdges(2))
Systems == {<<m>> : m \in Molecules} \cup {<<m, ShortMol>> : m \in Molecules}

\* set(molecule.nodes): atom ids are 0-based
MolNodes(mol) == 0..(Len(mol.atoms) - 1)
MetaNodes(meta) == 0..(meta.n - 1)
MetaEdgeSet(meta) == {{e[1], e[2]} : e \in Range(meta.edges)}

\* What molecule.interactions[ty] reads as: an entry appended by
\* apply_explicit_link is the link's own Interaction object.
Deref(f, it) ==
    IF it.ref.l = 0 THEN [atoms |-> it.atoms, params |-> it.params]
    ELSE [atoms |-> f[it.ref.l].inter[it.ref.t][it.ref.k].atoms,
          params |-> f[it.ref.l].inter[it.ref.t][it.ref.k].params]
MolInter(f, mol, ty) == [i \in DOMAIN mol.inter[ty] |-> Deref(f, mol.inter[ty][i])]

\* ---- find_atoms / vermouth attributes_match with ignore = [order, charge_group]
AttributesMatch(atom, q) ==
    /\ atom.atomname = q.atomname
    /\ atom.resname \in q.resname
    /\ atom.resid = q.resid
FindAtoms(mol, q) ==
    SortedSeq({j - 1 : j \in {i \in DOMAIN mol.atoms : AttributesMatch(mol.atoms[i], q)}})

\* ---- _build_link_interaction_from: atoms remapped through the match,
\* callables evaluated on (molecule, match)
EvalParam_keep(p, mol, match) == p
EvalParam(p, mol, match) ==
    IF p.fn THEN Lit(100 + match[1]) ELSE p
BuildLinkInteractionFrom(mol, interaction, match) ==
    Inter([i \in DOMAIN interaction.atoms |-> match[interaction.atoms[i]]],
          [i \in DOMAIN interaction.params |->
             EvalParam(interaction.params[i], mol, match)])

\* ---- vermouth Molecule.add_or_replace_interaction: the first stored
\* interaction with the same atom tuple is replaced, else the new one is
\* appended.  A stored list of atoms (an explicit link's) never equals a tuple.
AddOrReplaceInteraction_append(iseq, new) == Append(iseq, new)
AddOrReplaceInteraction(iseq, new) ==
    LET hits == {i \in DOMAIN iseq : iseq[i].ref.l = 0 /\ iseq[i].atoms = new.atoms}
    IN  IF hits = {} THEN Append(iseq, new)
        ELSE [iseq EXCEPT ![CHOOSE i \in hits : \A j \in hits : i <= j] = new]

\* new_edges of one interaction: consecutive matched atoms
NewEdges(atoms) == {{atoms[i], atoms[i + 1]} : i \in 1..(Len(atoms) - 1)}

\* the loop over link.interactions[inter_type] (lines 75-81) for one type
RECURSIVE AddLinkInteractions(_, _, _, _, _)
AddLinkInteractions(mol, ty, inters, k, match) ==
    IF k > Len(inters) THEN mol
    ELSE LET new == BuildLinkInteractionFrom(mol, inters[k], match)
             mol2 == [mol EXCEPT !.inter[ty] = AddOrReplaceInteraction(@, new),
                                 !.edges = @ \cup NewEdges(new.atoms)]
         IN  AddLinkInteractions(mol2, ty, inters, k + 1, match)

\* len(matchs) == 1
MatchOk_atLeastOne(matchs) == Len(matchs) >= 1
MatchOk(matchs) == Len(matchs) = 1

\* nx.set_node_attributes(link, dict(zip(link.nodes, resids)), 'resid')
SetResids(link, resids) ==
    [link EXCEPT !.nodes = [i \in DOMAIN link.nodes |->
        IF i <= Len(resids) THEN [link.nodes[i] EXCEPT !.resid = resids[i]]
        ELSE link.nodes[i]]]

\* ---- apply_link_between_residues: [ok, mol, link]; ok = FALSE is MatchError
ApplyLinkBetweenResidues(mol, link, resids) ==
    LET link2 == SetResids(link, resids)
        matchs == [i \in DOMAIN link2.nodes |-> FindAtoms(mol, link2.nodes[i])]
    IN  IF \E i \in DOMAIN matchs : ~MatchOk(matchs[i])
        THEN [ok |-> FALSE, mol |-> mol, link |-> link2]
        ELSE LET link_to_mol == [i \in DOMAIN matchs |-> matchs[i][1]]
                 m1 == AddLinkInteractions(mol, "bonds", link2.inter.bonds, 1, link_to_mol)
                 m2 == AddLinkInteractions(m1, "angles", link2.inter.angles, 1, link_to_mol)
             IN  [ok |-> TRUE, mol |-> m2, link |-> link2]

\* ---- apply_explicit_link
\* interaction.atoms[:] = [int(atom) - 1 for atom in interaction.atoms]
ConvertAtoms(atoms) == [i \in DOMAIN atoms |-> atoms[i] - 1]
\* set(interaction.atoms).issubset(set(molecule.nodes))
AtomsInMolecule(atoms, mol) == Range(atoms) \subseteq MolNodes(mol)
\* index of the first interaction of the list that raises IOError, 0 if none
FirstBad(iseq, mol) ==
    LET bad == {k \in DOMAIN iseq : ~AtomsInMolecule(ConvertAtoms(iseq[k].atoms), mol)}
    IN  IF bad = {} THEN 0 ELSE CHOOSE k \in bad : \A j \in bad : k <= j
\* one inter_type of the link: every interaction up to the raising one is
\* converted in place; the molecule gets the link's objects only if none raised
ExplicitType(mol, link, li, ty) ==
    LET iseq == link.inter[ty]
        fb == FirstBad(iseq, mol)
        upto == IF fb = 0 THEN Len(iseq) ELSE fb
        iseq2 == [k \in DOMAIN iseq |->
                    IF k <= upto THEN [iseq[k] EXCEPT !.atoms = ConvertAtoms(@)]
                    ELSE iseq[k]]
        refs == [k \in DOMAIN iseq |->
                    [atoms |-> <<>>, params |-> <<>>,
                     ref |-> [l |-> li, t |-> ty, k |-> k]]]
    IN  [ok |-> fb = 0,
         link |-> [link EXCEPT !.inter[ty] = iseq2],
         mol |-> IF fb = 0 THEN [mol EXCEPT !.inter[ty] = @ \o refs] ELSE mol]
ApplyExplicitLink(mol, link, li) ==
    LET r1 == ExplicitType(mol, link, li, "bonds")
        r2 == ExplicitType(r1.mol, r1.link, li, "angles")
    IN  IF r1.ok THEN r2 ELSE r1

\* ---- neighborhood: residues at shortest-path distance 1..degree of node,
\* nearest first
RECURSIVE Ball(_, _, _)
Ball(meta, node, d) ==
    IF d = 0 THEN {node}
    ELSE LET b == Ball(meta, node, d - 1)
         IN  b \cup {x \in MetaNodes(meta) : \E y \in b : {x, y} \in MetaEdgeSet(meta)}
RECURSIVE Neighborhood(_, _, _)
Neighborhood(meta, node, degree) ==
    IF degree <= 0 THEN <<>>
    ELSE Neighborhood(meta, node, degree - 1)
         \o SortedSeq(Ball(meta, node, degree) \ Ball(meta, node, degree - 1))

\* ---- get_subgraphs: the candidate residue-id lists; err is the ValueError
\* of list(orders).index(0)
Orders(link) == [i \in DOMAIN link.nodes |->
                   [wild |-> link.nodes[i].wild, o |-> link.nodes[i].order]]
HasZeroOrder(orders) == \E i \in DOMAIN orders : ~orders[i].wild /\ orders[i].o = 0
\* resid = edge[0] + order
FixedResid_otherEnd(edge, order) == edge[2] + order
FixedResid(edge, order) == edge[1] + order
RECURSIVE SubGraphIdxs(_, _, _, _)
SubGraphIdxs(meta, orders, edge, i) ==
    IF i = 0 THEN << <<>> >>
    ELSE LET prev == SubGraphIdxs(meta, orders, edge, i - 1)
         IN  IF ~orders[i].wild
             THEN [k \in DOMAIN prev |-> Append(prev[k], FixedResid(edge, orders[i].o))]
             ELSE LET res_ids == Neighborhood(meta, edge[1], Len(orders) - 1)
                      n == Len(res_ids)
                  IN  [k \in 1..(Len(prev) * n) |->
                         Append(prev[((k - 1) \div n) + 1], res_ids[((k - 1) % n) + 1])]
GetSubgraphs(meta, orders, edge) ==
    IF ~HasZeroOrder(orders) THEN [err |-> TRUE, idxs |-> <<>>]
    ELSE [err |-> FALSE, idxs |-> SubGraphIdxs(meta, orders, edge, Len(orders))]

\* the nx.Graph get_subgraphs builds for one candidate
PathEdges(idx_set) ==
    {{idx_set[i], idx_set[i + 1]} :
        i \in {j \in 1..(Len(idx_set) - 1) : idx_set[j] # idx_set[j + 1]}}
\* ---- is_subgraph: GraphMatcher(meta_molecule, graph).subgraph_is_isomorphic()
\* some node-induced subgraph of the residue graph is isomorphic to graph
IsSubgraph(meta, idx_set) ==
    LET ge == PathEdges(idx_set)
        gn == UNION ge
    IN  \/ gn = {}
        \/ \E f \in [gn -> MetaNodes(meta)] :
              /\ \A a, b \in gn : a # b => f[a] # f[b]
              /\ \A a, b \in gn :
                    a # b => (({a, b} \in ge) <=> ({f[a], f[b]} \in MetaEdgeSet(meta)))

\* ---- _get_link_resnames
GetLinkResnames(link) == UNION {nd.resname : nd \in Range(link.nodes)}
\* the if/elif of _get_links (lines 181-184): is the link looked at for the edge
LinkConsidered(link, res_names) ==
    /\ link.explicit = "absent"
    /\ res_names[1] \in GetLinkResnames(link)
    /\ res_names[2] \in GetLinkResnames(link)
\* meta_molecule.get_edge_resname
GetEdgeResname(meta, edge) == <<meta.resname[edge[1] + 1], meta.resname[edge[2] + 1]>>

\* ---- _get_links: zip(links, link_resids), or the ValueError of get_subgraphs
RECURSIVE GetLinksFrom(_, _, _, _)
GetLinksFrom(meta, edge, links, li) ==
    IF li > Len(links) THEN [err |-> FALSE, cands |-> <<>>]
    ELSE IF ~LinkConsidered(links[li], GetEdgeResname(meta, edge))
         THEN GetLinksFrom(meta, edge, links, li + 1)
         ELSE LET sg == GetSubgraphs(meta, Orders(links[li]), edge)
                  keep == SelectSeq(sg.idxs, LAMBDA s : IsSubgraph(meta, s))
                  mine == [k \in DOMAIN keep |->
                             [link |-> li,
                              resids |-> [j \in DOMAIN keep[k] |-> keep[k][j] + 1]]]
                  rest == GetLinksFrom(meta, edge, links, li + 1)
              IN  IF sg.err \/ rest.err THEN [err |-> TRUE, cands |-> <<>>]
                  ELSE [err |-> FALSE, cands |-> mine \o rest.cands]
GetLinks(meta, edge, links) == GetLinksFrom(meta, edge, links, 1)
\* what the loop of _get_links did with each link: whether the loop came to
\* it, whether it passed the if/elif, and what get_subgraphs returned for it
GetLinksSeen(meta, edge, links) ==
    LET Passed(li) == LinkConsidered(links[li], GetEdgeResname(meta, edge))
        Sub(li) == GetSubgraphs(meta, Orders(links[li]), edge)
    IN  [li \in DOMAIN links |->
           LET reached == \A k \in 1..(li - 1) : Passed(k) => ~Sub(k).err
           IN  [reached |-> reached,
                considered |-> reached /\ Passed(li),
                sub |-> IF reached /\ Passed(li) THEN Sub(li)
                        ELSE [err |-> FALSE, idxs |-> <<>>]]]

\* ---- the state the other stages rest in while one stage runs
LinksIdle ==
    /\ ff = <<>> /\ mols = <<>> /\ l_pc = "off" /\ l_mol = 0 /\ l_edge = 0
    /\ l_link = 0 /\ l_cands = <<>> /\ l_err = "none" /\ l_runs = 0
    /\ g_ff0 = <<>> /\ g_last = [valid |-> FALSE] /\ g_mols0 = <<>>
    /\ g_run = [failed |-> FALSE, okafter |-> FALSE, applied |-> {}]
    /\ g_get = [valid |-> FALSE]
ExpandIdle ==
    /\ e_chain = <<>> /\ e_meta = <<>> /\ e_mol = <<>> /\ e_pc = "off"
    /\ e_todo = <<>> /\ g_exp = [valid |-> FALSE] /\ e_stored = <<>>
BuildIdle ==
    /\ b_sizes = <<>> /\ b_pc = "off" /\ b_mol_idx = 0 /\ b_step = 0
    /\ b_table = <<>> /\ b_nodepos = <<>> /\ b_rescales = 0
    /\ b_maxdim = <<>> /\ b_supplied = <<>>

\* ---- values of the topology reader (top_parser.py, topology.py)
\* number of lines of the topology file
MaxLines == 7

\* self.current_meta: None, or {'tag': tag, 'condition': condition}
NoMeta == [set |-> FALSE, tag |-> "", condition |-> ""]
\* self.current_itp: None, or the list of the lines collected so far (only
\* its length is kept)
NoItp == [none |-> TRUE, len |-> 0]
\* topology.defaults: {} (rule 0 and gen "absent" stand for a missing key)
NoDefaults == [rule |-> 0, gen |-> "absent"]
\* a dict without keys
EmptyDict == [x \in {} |-> 0]
\* dict[k] = v and dict.update({k: v})
DictPut(f, k, v) == [x \in DOMAIN f \cup {k} |-> IF x = k THEN v ELSE f[x]]
\* topology.nonbond_params is one dict; a tuple key never equals a frozenset
\* key, so the entries under tuple keys (tup) and those under frozenset keys
\* (fs) are kept as two maps
NoNonbond == [tup |-> EmptyDict, fs |-> EmptyDict]

\* ---- the lines of the files the director is run on.  Data lines have the
\* form of the section they stand in.
PragmaLines ==
    {[kind |-> "#ifdef", word |-> "FLEX"], [kind |-> "#ifndef", word |-> "FLEX"],
     [kind |-> "#endif", word |-> ""], [kind |-> "#define", word |-> "FLEX"],
     [kind |-> "#undef", word |-> "FLEX"]}
SectionNames == {"defaults", "atomtypes", "nonbond_params", "bondtypes", "moleculetype"}
\* [ defaults ] lines: nbfunc comb-rule [gen-pairs]
DefaultsLines ==
    {[rule |-> 1, gen |-> "yes"], [rule |-> 2, gen |-> "yes"],
     [rule |-> 1, gen |-> "no"], [rule |-> 2, gen |-> "absent"]}
\* [ atomtypes ] lines: name ... nb1 nb2
AtomtypesLines ==
    {[name |-> "P", nb1 |-> 2, nb2 |-> 1], [name |-> "Q", nb1 |-> 8, nb2 |-> 4]}
\* [ nonbond_params ] lines: atom_1 atom_2 func nb1 nb2
NonbondLines ==
    {[atoms |-> <<"P", "Q">>, f |-> 1, nb1 |-> 7, nb2 |-> 3],
     [atoms |-> <<"P", "P">>, f |-> 1, nb1 |-> 9, nb2 |-> 6]}

Truthy(itp) == ~itp.none /\ itp.len > 0
Append1(itp) == [none |-> FALSE, len |-> itp.len + 1]

TopIdle ==
    /\ t_pc = "off" /\ t_n = 0 /\ t_last = <<>> /\ t_section = ""
    /\ t_meta = NoMeta /\ t_itp = NoItp /\ t_itp_lines = 0 /\ t_defines = {}
    /\ t_defaults = NoDefaults /\ t_atom_types = EmptyDict
    /\ t_nonbond = NoNonbond /\ t_types = <<>> /\ g_given = EmptyDict

\* ---- ApplyLinks.run_molecule, one step of its loops at a time
LinksInit ==
    /\ ff \in ForceFields
    /\ mols \in Systems
    /\ l_pc = "idle" /\ l_mol = 0 /\ l_edge = 0 /\ l_link = 0
    /\ l_cands = <<>> /\ l_err = "none" /\ l_runs = 0
    /\ g_ff0 = ff /\ g_mols0 = mols
    /\ g_last = [valid |-> FALSE]
    /\ g_run = [failed |-> FALSE, okafter |-> FALSE, applied |-> {}]
    /\ g_get = [valid |-> FALSE]
    /\ ExpandIdle /\ BuildIdle /\ TopIdle

\* The driver calls run_molecule on the molecules of the system in turn
\* (and again from the first one once all were run).
StartRun ==
    /\ l_pc = "idle" /\ l_runs < MaxRuns
    /\ l_mol' = (l_runs % Len(mols)) + 1
    /\ l_runs' = l_runs + 1
    /\ l_edge' = 1 /\ l_cands' = <<>> /\ l_pc' = "edges"
    /\ g_run' = [g_run EXCEPT !.failed = FALSE, !.okafter = FALSE]
    /\ UNCHANGED <<ff, mols, l_link, l_err, g_ff0, g_last, g_mols0, g_get, evars, bvars, tvars>>

\* for edge in meta_molecule.edges: links, resids = _get_links(meta_molecule, edge)
GetLinksStep ==
    /\ l_pc = "edges" /\ l_cands = <<>>
    /\ l_edge <= Len(mols[l_mol].meta.edges)
    /\ LET r == GetLinks(mols[l_mol].meta, mols[l_mol].meta.edges[l_edge], ff)
       IN  IF r.err
           THEN /\ l_pc' = "error" /\ l_err' = "ValueError"
                /\ UNCHANGED <<l_cands, l_edge>>
           ELSE /\ l_cands' = r.cands /\ l_edge' = l_edge + 1
                /\ UNCHANGED <<l_pc, l_err>>
    /\ g_get' = [valid |-> TRUE, mol |-> l_mol,
                 edge |-> mols[l_mol].meta.edges[l_edge],
                 err |-> GetLinks(mols[l_mol].meta, mols[l_mol].meta.edges[l_edge], ff).err,
                 cands |-> GetLinks(mols[l_mol].meta, mols[l_mol].meta.edges[l_edge], ff).cands,
                 seen |-> GetLinksSeen(mols[l_mol].meta, mols[l_mol].meta.edges[l_edge], ff)]
    /\ UNCHANGED <<ff, mols, l_mol, l_link, l_runs, g_ff0, g_last, g_mols0, g_run,
                   evars, bvars, tvars>>

\* except MatchError: continue
AfterMatchError_break(cands) == <<>>
AfterMatchError(cands) == Tail(cands)

\* try: apply_link_between_residues(molecule, link, idxs)
ApplyLinkStep ==
    /\ l_pc = "edges" /\ l_cands # <<>>
    /\ LET c == Head(l_cands)
           r == ApplyLinkBetweenResidues(mols[l_mol], ff[c.link], c.resids)
       IN  /\ ff' = [ff EXCEPT ![c.link] = r.link]
           /\ mols' = [mols EXCEPT ![l_mol] = r.mol]
           /\ l_cands' = IF r.ok THEN Tail(l_cands) ELSE AfterMatchError(l_cands)
           /\ g_last' = [valid |-> TRUE, mol |-> l_mol, link |-> c.link,
                         resids |-> c.resids, ok |-> r.ok, pre |-> mols[l_mol],
                         again |-> /\ g_last.valid
                                   /\ g_last.ok
                                   /\ g_last.mol = l_mol
                                   /\ g_last.link = c.link
                                   /\ g_last.resids = c.resids,
                         seen |-> <<l_mol, c.link, c.resids>> \in g_run.applied]
           /\ g_run' = [failed |-> g_run.failed \/ ~r.ok,
                        okafter |-> g_run.okafter \/ (g_run.failed /\ r.ok),
                        applied |-> IF r.ok
                                    THEN g_run.applied \cup {<<l_mol, c.link, c.resids>>}
                                    ELSE g_run.applied]
    /\ UNCHANGED <<l_pc, l_mol, l_edge, l_link, l_err, l_runs, g_ff0, g_mols0,
                   g_get, evars, bvars, tvars>>

\* the edge loop is over: for link in force_field.links
EnterExplicit ==
    /\ l_pc = "edges" /\ l_cands = <<>>
    /\ l_edge > Len(mols[l_mol].meta.edges)
    /\ l_pc' = "explicit" /\ l_link' = 1
    /\ UNCHANGED <<ff, mols, l_mol, l_edge, l_cands, l_err, l_runs,
                   g_ff0, g_last, g_mols0, g_run, g_get, evars, bvars, tvars>>

\* if "explicit" in link.molecule_meta and link.molecule_meta["explicit"]
IsExplicit(link) == link.explicit = "true"

ApplyExplicitStep ==
    /\ l_pc = "explicit" /\ l_link <= Len(ff)
    /\ IF IsExplicit(ff[l_link])
       THEN LET r == ApplyExplicitLink(mols[l_mol], ff[l_link], l_link)
            IN  /\ ff' = [ff EXCEPT ![l_link] = r.link]
                /\ mols' = [mols EXCEPT ![l_mol] = r.mol]
                /\ l_pc' = IF r.ok THEN "explicit" ELSE "error"
                /\ l_err' = IF r.ok THEN l_err ELSE "IOError"
                /\ g_last' = [valid |-> FALSE]
       ELSE UNCHANGED <<ff, mols, l_pc, l_err, g_last>>
    /\ l_link' = l_link + 1
    /\ UNCHANGED <<l_mol, l_edge, l_cands, l_runs, g_ff0, g_mols0, g_run,
                   g_get, evars, bvars, tvars>>

\* meta_molecule.molecule = molecule; return meta_molecule
FinishRun ==
    /\ l_pc = "explicit" /\ l_link > Len(ff)
    /\ l_pc' = "idle"
    /\ UNCHANGED <<ff, mols, l_mol, l_edge, l_link, l_cands, l_err, l_runs,
                   g_ff0, g_last, g_mols0, g_run, g_get, evars, bvars, tvars>>

LinksNext ==
    \/ StartRun
    \/ GetLinksStep
    \/ ApplyLinkStep
    \/ EnterExplicit
    \/ ApplyExplicitStep
    \/ FinishRun

SpecLinks == LinksInit /\ [][LinksNext]_vars

\* ========================================================================
\* Properties of link resolution
\* ========================================================================
\* the atoms a pattern node's query selects: (its attributes + the assigned
\* residue id) without order and charge_group
QueryAtoms(mol, nd, resid) ==
    {a \in MolNodes(mol) : /\ mol.atoms[a + 1].atomname = nd.atomname
                           /\ mol.atoms[a + 1].resname \in nd.resname
                           /\ mol.atoms[a + 1].resid = resid}
AllNodesUnique(mol, link, resids) ==
    \A i \in DOMAIN link.nodes : Cardinality(QueryAtoms(mol, link.nodes[i], resids[i])) = 1
TheAtom(mol, nd, resid) == CHOOSE a \in QueryAtoms(mol, nd, resid) : TRUE

\* C1: apply_link_between_residues mutates the atom graph only if every
\* pattern node matched exactly one atom; when some node's query matches zero
\* or several atoms the call raises MatchError and nodes, edges and
\* interactions of the atom graph are as before the call.
C1_MatchExactness ==
    (g_last.valid /\ ~AllNodesUnique(g_last.pre, g_ff0[g_last.link], g_last.resids))
        => (~g_last.ok /\ mols[g_last.mol] = g_last.pre)
\* a call has just raised because a query matched two atoms
C1_Witness ==
    /\ g_last.valid /\ ~g_last.ok
    /\ \E i \in DOMAIN g_ff0[g_last.link].nodes :
          Cardinality(QueryAtoms(g_last.pre, g_ff0[g_last.link].nodes[i],
                                 g_last.resids[i])) > 1

\* C6: an explicit link's interaction is accepted into a molecule only with
\* every 1-based index i of the link converted to exactly i-1 and i-1 an atom
\* of that molecule; an index outside 1..N raises instead.
ExplicitEntries(mol) ==
    UNION {{mol.inter.bonds[i].ref : i \in {j \in DOMAIN mol.inter.bonds :
                                              mol.inter.bonds[j].ref.l # 0}},
           {mol.inter.angles[i].ref : i \in {j \in DOMAIN mol.inter.angles :
                                               mol.inter.angles[j].ref.l # 0}}}
OriginalAtoms(ref) == g_ff0[ref.l].inter[ref.t][ref.k].atoms
StoredAtoms(ref) == ff[ref.l].inter[ref.t][ref.k].atoms
C6_ExplicitIndexExact ==
    \A m \in DOMAIN mols : \A ref \in ExplicitEntries(mols[m]) :
        Range(OriginalAtoms(ref)) \subseteq 1..Len(mols[m].atoms)

\* C7: applying the same link with the same residue ids to the same atom
\* graph a second time changes nothing; and a candidate that comes up again
\* later in the resolution (from another residue-graph edge) duplicates no
\* interaction and no bond edge.
InterAtoms(mol, ty) == [i \in DOMAIN mol.inter[ty] |-> mol.inter[ty][i].atoms]
C7_Idempotent ==
    /\ (g_last.valid /\ g_last.again) => mols[g_last.mol] = g_last.pre
    /\ (g_last.valid /\ g_last.seen) =>
          /\ InterAtoms(mols[g_last.mol], "bonds") = InterAtoms(g_last.pre, "bonds")
          /\ InterAtoms(mols[g_last.mol], "angles") = InterAtoms(g_last.pre, "angles")
          /\ mols[g_last.mol].edges = g_last.pre.edges
\* the same candidate was applied twice in a row, coming from two different
\* residue-graph edges of one run
C7_Witness ==
    /\ g_last.valid /\ g_last.again /\ g_last.ok
    /\ l_runs = 1 /\ l_edge = 3

\* C8: after every run of run_molecule the interactions an explicit link
\* contributed to a molecule carry the link's original 1-based indices minus
\* one, also those stored by an earlier run.
C8_RunIdempotent ==
    l_pc = "idle" =>
        \A m \in DOMAIN mols : \A ref \in ExplicitEntries(mols[m]) :
            StoredAtoms(ref) = [i \in DOMAIN OriginalAtoms(ref) |-> OriginalAtoms(ref)[i] - 1]

\* C9: linear chain of one residue name, one non-explicit link with pattern
\* nodes of orders (0,1): after resolution there is exactly one new bond per
\* residue-graph edge (u,u+1), between the designated atoms of u and u+1,
\* and the residue graph is as before.
IsLinearChainOfOne(mol) ==
    /\ \A i \in DOMAIN mol.meta.resname : mol.meta.resname[i] = mol.meta.resname[1]
    /\ mol.meta.edges = LinearEdges(mol.meta.n)
IsOrder01Link(link, resname) ==
    /\ link.explicit = "absent"
    /\ Len(link.nodes) = 2
    /\ ~link.nodes[1].wild /\ link.nodes[1].order = 0
    /\ ~link.nodes[2].wild /\ link.nodes[2].order = 1
    /\ Len(link.inter.bonds) = 1 /\ link.inter.angles = <<>>
    /\ Range(link.inter.bonds[1].atoms) = {1, 2}
    /\ \A i \in 1..2 :
          /\ resname \in link.nodes[i].resname
          /\ Cardinality({j \in DOMAIN ResAtomNames(resname) :
                            ResAtomNames(resname)[j] = link.nodes[i].atomname}) = 1
C9Scenario(m) ==
    /\ Len(g_ff0) = 1
    /\ IsLinearChainOfOne(g_mols0[m])
    /\ IsOrder01Link(g_ff0[1], g_mols0[m].meta.resname[1])
\* the bond the link asks for on edge (u-1,u): residue ids u and u+1
ExpectedBond(mol, link, u) ==
    [i \in 1..2 |-> TheAtom(mol, link.nodes[link.inter.bonds[1].atoms[i]],
                            u + link.inter.bonds[1].atoms[i] - 1)]
LinkPresent(mol, link, resids) ==
    \A ty \in Range(InterTypes) : \A k \in DOMAIN link.inter[ty] :
        \E i \in DOMAIN mol.inter[ty] :
            /\ mol.inter[ty][i].ref.l = 0
            /\ mol.inter[ty][i].atoms =
                  [j \in DOMAIN link.inter[ty][k].atoms |->
                     TheAtom(mol, link.nodes[link.inter[ty][k].atoms[j]],
                             resids[link.inter[ty][k].atoms[j]])]
C10_MatchErrorSkipsCandidate ==
    /\ l_err # "MatchError"
    /\ l_pc = "explicit" =>
          \A e \in Range(mols[l_mol].meta.edges) :
              \A c \in Range(GetLinks(mols[l_mol].meta, e, g_ff0).cands) :
                  AllNodesUnique(mols[l_mol], g_ff0[c.link], c.resids)
                      => LinkPresent(mols[l_mol], g_ff0[c.link], c.resids)
\* a candidate was applied after an earlier candidate of the run had raised
C10_Witness == l_pc = "explicit" /\ g_run.okafter

\* ========================================================================
\* RESIDUE EXPANSION  (polyply/src/map_to_molecule.py)
\* ========================================================================
Atom(an, rn, rid) == [atomname |-> an, resname |-> rn, resid |-> rid]
\* force_field.blocks: node keys of a block are 0-based positions, a bond
\* is <<node key, node key, parameters>>.  MIX is the two-residue block of
\* test_multiresidue_block, P the one-atom block PEO of that test, T a
\* branched block as the one of test_add_blocks, Z a block without atoms,
\* TRI a block of three one-atom residues bonded in a row.
\* The residue name X has no block.
BlockNames == {"A", "P", "T", "Z", "MIX", "TRI"}
ResidueNames == BlockNames \cup {"X"}
Blocks(name) ==
    CASE name = "Z" -> [atoms |-> <<>>, bonds |-> <<>>]
      [] name = "A" -> [atoms |-> <<Atom("C1", "A", 1), Atom("C2", "A", 1)>>,
                        bonds |-> << <<0, 1, "ka">> >>]
      [] name = "P" -> [atoms |-> <<Atom("CO1", "P", 1)>>, bonds |-> <<>>]
      [] name = "TRI" -> [atoms |-> <<Atom("X1", "S1", 1), Atom("X2", "S2", 2),
                                      Atom("X3", "S3", 3)>>,
                          bonds |-> << <<0, 1, "s1">>, <<1, 2, "s2">> >>]
      [] name = "T" -> [atoms |-> <<Atom("CO1", "T", 1), Atom("CO2", "T", 1),
                                    Atom("CO3", "T", 1)>>,
                        bonds |-> << <<0, 1, "kt1">>, <<1, 2, "kt2">> >>]
      [] OTHER      -> [atoms |-> <<Atom("C1", "R1", 1), Atom("C2", "R1", 1),
                                    Atom("C1", "R2", 2), Atom("C2", "R2", 2)>>,
                        bonds |-> << <<0, 1, "k1">>, <<1, 2, "k2">>,
                                     <<2, 3, "k3">> >>]
RECURSIVE SeqsUpTo(_, _)
SeqsUpTo(S, n) ==
    IF n = 0 THEN {<<>>}
    ELSE LET shorter == SeqsUpTo(S, n - 1)
         IN  shorter \cup {Append(q, x) : q \in shorter, x \in S}
Chains == SeqsUpTo(ResidueNames, MaxChain) \ {<<>>}

\* MetaMolecule.from_monomer_seq_linear / add_monomer: nodes 0..n-1 in
\* insertion order, an edge between consecutive residues, no "links" flag
MetaFromChain(names) ==
    [order |-> [i \in 1..Len(names) |-> i - 1],
     resname |-> [n \in 0..(Len(names) - 1) |-> names[n + 1]],
     links |-> [n \in 0..(Len(names) - 1) |-> "unset"],
     edges |-> {{i - 1, i} : i \in 1..(Len(names) - 1)}]
ENodes(meta) == Range(meta.order)

\* set(nx.get_node_attributes(x, "resid").values()), the same for "resname"
BlockResids(block) == {block.atoms[i].resid : i \in DOMAIN block.atoms}
BlockResnames(block) == {block.atoms[i].resname : i \in DOMAIN block.atoms}
MolResids(mol) == {mol.atoms[i].resid : i \in DOMAIN mol.atoms}

\* vermouth Block.to_molecule(): atoms numbered from 0, residue ids kept
ToMolecule(block) == [atoms |-> block.atoms, bonds |-> block.bonds, base |-> 0]
\* vermouth Molecule.merge_molecule: new atoms are numbered after the last
\* atom (from 1 when the molecule has no atom), their residue ids are shifted
\* by the residue id of the last atom; base is the id of the first atom
MergeStart(mol) == IF mol.atoms = <<>> THEN 1 ELSE mol.base + Len(mol.atoms)
MergeBase(mol, block) ==
    IF mol.atoms = <<>> /\ block.atoms # <<>> THEN 1 ELSE mol.base
MergeMolecule_sameIds(mol, block) ==
    LET n == Len(mol.atoms)
        residue_offset == IF n = 0 THEN 0 ELSE mol.atoms[n].resid
    IN  [atoms |-> mol.atoms \o
                   [i \in DOMAIN block.atoms |->
                      [block.atoms[i] EXCEPT !.resid = @ + residue_offset]],
         bonds |-> mol.bonds \o block.bonds,
         base |-> MergeBase(mol, block)]
MergeMolecule(mol, block) ==
    LET n == Len(mol.atoms)
        residue_offset == IF n = 0 THEN 0 ELSE mol.atoms[n].resid
    IN  [atoms |-> mol.atoms \o
                   [i \in DOMAIN block.atoms |->
                      [block.atoms[i] EXCEPT !.resid = @ + residue_offset]],
         bonds |-> mol.bonds \o
                   [i \in DOMAIN block.bonds |->
                      <<block.bonds[i][1] + MergeStart(mol),
                        block.bonds[i][2] + MergeStart(mol),
                        block.bonds[i][3]>>],
         base |-> MergeBase(mol, block)]

Reverse(q) == [i \in DOMAIN q |-> q[Len(q) + 1 - i]]
\* ---- nx.relabel_nodes(meta_molecule, mapping, copy=False) for the mapping
\* node -> node + offset of the nodes in moved: each old label is removed and
\* its new label inserted at the end of the node dict; with overlapping old
\* and new labels the larger labels go first
RelabelOrder(order, moved, offset) ==
    LET overlap == \E a \in moved : a + offset \in moved
        olds == IF overlap THEN Reverse(SortedSeq(moved)) ELSE SortedSeq(moved)
    IN  SelectSeq(order, LAMBDA n : n \notin moved)
        \o [i \in DOMAIN olds |-> olds[i] + offset]

\* offset = len(set(resid values)) - 1
ExpandOffset(block) == Cardinality(BlockResids(block)) - 1
\* node_to_resid of one block atom (lines 34-38)
NodeToResid(resid, meta_mol_node) ==
    IF resid # meta_mol_node THEN resid + meta_mol_node - 1 ELSE resid

\* ---- MapToMolecule.expand_meta_graph
ExpandMetaGraph(meta, block, meta_mol_node) ==
    LET offset == ExpandOffset(block)
        moved == {n \in ENodes(meta) : n > meta_mol_node}
        Map(n) == IF n \in moved THEN n + offset ELSE n
        order1 == RelabelOrder(meta.order, moved, offset)
        nodes1 == Range(order1)
        n2r == [i \in DOMAIN block.atoms |->
                  NodeToResid(block.atoms[i].resid, meta_mol_node)]
        added == Range(n2r)
        order2 == order1 \o SortedSeq(added \ nodes1)
        nodes2 == Range(order2)
        Old(n) == CHOOSE o \in ENodes(meta) : Map(o) = n
        \* the last block atom of a node names it
        LastAtom(n) == CHOOSE i \in DOMAIN n2r :
                          n2r[i] = n /\ \A j \in DOMAIN n2r : n2r[j] = n => j <= i
        edges1 == {{Map(a) : a \in e} : e \in meta.edges}
        edges2 == {{n2r[block.bonds[i][1] + 1], n2r[block.bonds[i][2] + 1]} :
                      i \in {j \in DOMAIN block.bonds :
                               n2r[block.bonds[j][1] + 1] # n2r[block.bonds[j][2] + 1]}}
    IN  [order |-> order2,
         resname |-> [n \in nodes2 |->
                        IF n \in added THEN block.atoms[LastAtom(n)].resname
                        ELSE meta.resname[Old(n)]],
         links |-> [n \in nodes2 |->
                        IF n \in added THEN "false" ELSE meta.links[Old(n)]],
         edges |-> edges1 \cup edges2]

\* len(set(nx.get_node_attributes(block, "resname").values())) > 1
IsMultiResidue(block) == Cardinality(BlockResnames(block)) > 1
ExpandIfMulti(meta, block, node) ==
    IF IsMultiResidue(block) THEN ExpandMetaGraph(meta, block, node) ELSE meta
ExpandRecord(meta, block, node) ==
    IF IsMultiResidue(block)
    THEN [valid |-> TRUE, node |-> node, n_res |-> Cardinality(BlockResids(block)),
          before |-> ENodes(meta), block |-> block, meta |-> meta]
    ELSE [valid |-> FALSE]

NoMolecule == [atoms |-> <<>>, bonds |-> <<>>, base |-> 0]
ExpandInit ==
    /\ e_chain \in Chains
    /\ e_meta = MetaFromChain(e_chain)
    /\ e_mol = NoMolecule
    /\ e_stored = [set |-> FALSE, mol |-> NoMolecule]
    /\ e_pc = "first" /\ e_todo = <<>>
    /\ g_exp = [valid |-> FALSE]
    /\ LinksIdle /\ BuildIdle /\ TopIdle

\* add_blocks lines 70-75: the block of node 0
AddFirstBlock ==
    /\ e_pc = "first"
    /\ IF e_meta.resname[0] \notin BlockNames
       THEN \* force_field.blocks[resname] raises KeyError
            /\ e_pc' = "noblock"
            /\ UNCHANGED <<e_meta, e_mol, e_todo, g_exp>>
       ELSE LET block == Blocks(e_meta.resname[0])
                meta2 == ExpandIfMulti(e_meta, block, 0)
            IN  /\ e_mol' = ToMolecule(block)
                /\ e_meta' = meta2
                /\ g_exp' = ExpandRecord(e_meta, block, 0)
                /\ e_todo' = Tail(meta2.order)
                /\ e_pc' = "loop"
    /\ UNCHANGED <<e_chain, e_stored, lvars, bvars, tvars>>

\* if node + 1 in nx.get_node_attributes(new_mol, "resid").values(): continue
AlreadyInMolecule(mol, node) == (node + 1) \in MolResids(mol)

\* add_blocks lines 77-86: one pass of the loop over the node list taken
\* before the loop
AddNextBlock ==
    /\ e_pc = "loop" /\ e_todo # <<>>
    /\ LET node == Head(e_todo)
       IN  IF node \notin ENodes(e_meta)
           THEN \* meta_molecule.nodes[node] raises KeyError
                /\ e_pc' = "error"
                /\ UNCHANGED <<e_meta, e_mol, e_todo, g_exp>>
           ELSE IF AlreadyInMolecule(e_mol, node)
           THEN /\ e_todo' = Tail(e_todo)
                /\ UNCHANGED <<e_meta, e_mol, e_pc, g_exp>>
           ELSE IF e_meta.resname[node] \notin BlockNames
           THEN \* force_field.blocks[resname] raises KeyError
                /\ e_pc' = "noblock"
                /\ UNCHANGED <<e_meta, e_mol, e_todo, g_exp>>
           ELSE LET block == Blocks(e_meta.resname[node])
                IN  /\ e_mol' = MergeMolecule(e_mol, block)
                    /\ e_meta' = ExpandIfMulti(e_meta, block, node)
                    /\ g_exp' = ExpandRecord(e_meta, block, node)
                    /\ e_todo' = Tail(e_todo)
                    /\ UNCHANGED e_pc
    /\ UNCHANGED <<e_chain, e_stored, lvars, bvars, tvars>>

\* return new_mol; run_molecule: meta_molecule.molecule = new_molecule
ReturnMolecule ==
    /\ e_pc = "loop" /\ e_todo = <<>>
    /\ e_pc' = "done"
    /\ e_stored' = [set |-> TRUE, mol |-> e_mol]
    /\ UNCHANGED <<e_chain, e_meta, e_mol, e_todo, g_exp, lvars, bvars, tvars>>

ExpandNext ==
    \/ AddFirstBlock
    \/ AddNextBlock
    \/ ReturnMolecule

SpecExpand == ExpandInit /\ [][ExpandNext]_vars

\* ---- Properties of residue expansion
\* C2: expanding a block of N > 1 residue ids at node k leaves the residue
\* graph with exactly N-1 more nodes, the node ids form a contiguous range
\* and no two residues of the block share a node.
ResidueNodes(rec) ==
    {NodeToResid(r, rec.node) : r \in BlockResids(rec.block)}
C2_ExpansionCount ==
    g_exp.valid =>
        /\ Cardinality(ENodes(e_meta)) = Cardinality(g_exp.before) + g_exp.n_res - 1
        /\ ENodes(e_meta) = 0..(Cardinality(ENodes(e_meta)) - 1)
        /\ Cardinality(ResidueNodes(g_exp)) = g_exp.n_res

\* C3: when add_blocks is done, the atoms with residue id i+1 are exactly the
\* atoms of the template residue node i stands for, for every residue-graph
\* node i, and there are no other atoms.
TemplateAtoms(resname) ==
    LET b == CHOOSE name \in BlockNames : resname \in BlockResnames(Blocks(name))
    IN  IF \E name \in BlockNames : resname \in BlockResnames(Blocks(name))
        THEN [i \in DOMAIN SelectSeq(Blocks(b).atoms, LAMBDA a : a.resname = resname) |->
                 SelectSeq(Blocks(b).atoms, LAMBDA a : a.resname = resname)[i].atomname]
        ELSE <<>>
AtomsOfResid(mol, rid) ==
    LET mine == SelectSeq(mol.atoms, LAMBDA a : a.resid = rid)
    IN  [i \in DOMAIN mine |-> mine[i].atomname]
C3_EveryResidueHasItsAtoms ==
    e_pc = "done" =>
        /\ \A n \in ENodes(e_meta) :
              /\ AtomsOfResid(e_mol, n + 1) = TemplateAtoms(e_meta.resname[n])
              /\ \A i \in DOMAIN e_mol.atoms :
                    e_mol.atoms[i].resid = n + 1 => e_mol.atoms[i].resname = e_meta.resname[n]
        /\ \A i \in DOMAIN e_mol.atoms : (e_mol.atoms[i].resid - 1) \in ENodes(e_meta)

\* ========================================================================
\* PLACEMENT  (polyply/src/build_system.py)
\* ========================================================================
\* Positions are taken on one axis of the box, in units of 0.1 nm, at
\* multiples of GridStep; np.inf marks an undetermined position.
Inf == -1
GridStep == 5
\* inter_matrix: the minimum distance of the one atom type of the model
MinDist == 5
\* scaleing_factor = 1.1
ScaleNum == 11
ScaleDen == 10

Abs(x) == IF x < 0 THEN -x ELSE x
RECURSIVE SumTo(_, _)
SumTo(q, n) == IF n = 0 THEN 0 ELSE q[n] + SumTo(q, n - 1)
\* nodes_to_gndx[(mol_idx, node)], as an index of the table
Gndx(sizes, m, node) == SumTo(sizes, m - 1) + node + 1
MolSizes == SeqsUpTo({1, 2}, MaxMols) \ SeqsUpTo({1, 2}, 1)

\* ---- _prepare_topology: the table is all np.inf ("position" is never a
\* node of molecule.nodes, so line 59 does not run)
PrepareTopology(sizes) == [none |-> FALSE, pos |-> [i \in 1..SumTo(sizes, Len(sizes)) |-> Inf]]

\* ---- Topology.add_positions_from_file: the atoms of the molecules take
\* the coordinates of the file in order (total); an atom past the end of the
\* file gets build = True and no position.  Every molecule is one residue
\* (resid 1, residue node 0).
NoPositions(sizes) == [m \in DOMAIN sizes |-> [n \in 1..sizes[m] |-> Inf]]
\* the coordinate file: atom number i (from 1) at GridStep * i
FileCoord(i) == GridStep * i
AtomPositions(sizes, nfile) ==
    [m \in DOMAIN sizes |-> [n \in 1..sizes[m] |->
        IF SumTo(sizes, m - 1) + n <= nfile
        THEN FileCoord(SumTo(sizes, m - 1) + n) ELSE Inf]]
\* total (= last_atom) after the atoms of molecule m
TotalAfter(sizes, nfile, m) ==
    IF SumTo(sizes, m) <= nfile THEN SumTo(sizes, m) ELSE nfile
\* lines 257-265: the centre of the residue is computed unless last_atom is
\* one of its atoms; the centre reads the position of every atom of the
\* residue (KeyError when one has none)
CentreRaises(sizes, nfile, m) ==
    /\ TotalAfter(sizes, nfile, m) \notin 0..(sizes[m] - 1)
    /\ \E n \in 1..sizes[m] : AtomPositions(sizes, nfile)[m][n] = Inf
AddPositionsRaises(sizes, nfile) ==
    \E m \in DOMAIN sizes : CentreRaises(sizes, nfile, m)

BuildInit ==
    /\ b_sizes \in MolSizes
    /\ b_pc = "load" /\ b_mol_idx = 0 /\ b_step = 0
    /\ b_table = [none |-> FALSE, pos |-> <<>>]
    /\ b_nodepos = NoPositions(b_sizes)
    /\ b_supplied = NoPositions(b_sizes)
    /\ b_maxdim = [num |-> BoxEdge0, den |-> 1]
    /\ b_rescales = 0
    /\ LinksIdle /\ ExpandIdle /\ TopIdle

\* the topology is built without a coordinate file
NoCoordinateFile ==
    /\ b_pc = "load"
    /\ b_pc' = "prepare"
    /\ UNCHANGED <<b_sizes, b_supplied, b_mol_idx, b_step, b_table, b_maxdim,
                   b_nodepos, b_rescales, lvars, evars, tvars>>

\* add_positions_from_file with a file of nfile atoms
AddPositionsFromFile ==
    /\ b_pc = "load"
    /\ \E nfile \in 0..SumTo(b_sizes, Len(b_sizes)) :
          IF AddPositionsRaises(b_sizes, nfile)
          THEN /\ b_pc' = "crashed"
               /\ UNCHANGED <<b_nodepos, b_supplied>>
          ELSE /\ b_pc' = "prepare"
               /\ b_nodepos' = AtomPositions(b_sizes, nfile)
               /\ b_supplied' = AtomPositions(b_sizes, nfile)
    /\ UNCHANGED <<b_sizes, b_mol_idx, b_step, b_table, b_maxdim, b_rescales,
                   lvars, evars, tvars>>

\* _compose_system up to the placement loop
PrepareStep ==
    /\ b_pc = "prepare"
    /\ b_table' = PrepareTopology(b_sizes)
    /\ b_pc' = "walk"
    /\ UNCHANGED <<b_sizes, b_supplied, b_mol_idx, b_step, b_maxdim,
                   b_nodepos, b_rescales, lvars, evars, tvars>>

\* ---- RandomWalk.run_molecule with processor.success: every atom of the
\* molecule gets a position inside the box, at least MinDist from every
\* position of the table and from the other atoms of the molecule, each atom
\* one step from the one before
InBox(x, maxdim) == x >= GridStep /\ x * maxdim.den <= maxdim.num
Placed(table) == {i \in DOMAIN table.pos : table.pos[i] # Inf}
WalkOk(walk, table, maxdim) ==
    /\ \A i \in DOMAIN walk : InBox(walk[i], maxdim)
    /\ \A i \in DOMAIN walk : \A j \in Placed(table) :
          Abs(walk[i] - table.pos[j]) >= MinDist
    /\ \A i, j \in DOMAIN walk : i # j => Abs(walk[i] - walk[j]) >= MinDist
    /\ \A i \in DOMAIN walk : i > 1 => Abs(walk[i] - walk[i - 1]) = GridStep
GridCoords(maxdim) == {GridStep * i : i \in 1..(maxdim.num \div (maxdim.den * GridStep))}
Walks(size, table, maxdim) ==
    {w \in [1..size -> GridCoords(maxdim)] : WalkOk(w, table, maxdim)}

\* _handle_random_walk returns True; _compose_system: mol_idx += 1
WalkSuccess ==
    /\ b_pc = "walk" /\ b_mol_idx < Len(b_sizes) /\ ~b_table.none
    /\ \E w \in Walks(b_sizes[b_mol_idx + 1], b_table, b_maxdim) :
          /\ b_table' = [b_table EXCEPT !.pos =
                [i \in DOMAIN b_table.pos |->
                   IF \E n \in DOMAIN w : Gndx(b_sizes, b_mol_idx + 1, n - 1) = i
                   THEN w[i - SumTo(b_sizes, b_mol_idx)]
                   ELSE b_table.pos[i]]]
          /\ b_nodepos' = [b_nodepos EXCEPT ![b_mol_idx + 1] = w]
    /\ b_mol_idx' = b_mol_idx + 1
    /\ b_step' = 0
    /\ UNCHANGED <<b_sizes, b_supplied, b_pc, b_maxdim, b_rescales, lvars, evars, tvars>>

\* the walk failed and step_count < self.maxiter: step_count += 1
WalkRetry ==
    /\ b_pc = "walk" /\ b_mol_idx < Len(b_sizes) /\ ~b_table.none
    /\ b_step < MaxIter
    /\ b_step' = b_step + 1
    /\ UNCHANGED <<b_sizes, b_supplied, b_pc, b_mol_idx, b_table, b_maxdim, b_nodepos,
                   b_rescales, lvars, evars, tvars>>

\* ---- _rescale_system: the first molecule whose node 0 has a position is
\* translated along u_vect of that position by scale_factor, then the
\* function returns (line 89 is inside the loop over the molecules); with no
\* such molecule the function returns None
FirstPlaced(nodepos) ==
    LET have == {m \in DOMAIN nodepos : nodepos[m][1] # Inf}
    IN  IF have = {} THEN 0 ELSE CHOOSE m \in have : \A k \in have : m <= k
\* u_vect(position) * scale_factor, on the axis
TransVect(p) == IF p > 0 THEN ScaleNum ELSE -ScaleNum
RescaleSystem(sizes, nodepos, table) ==
    LET m == FirstPlaced(nodepos)
    IN  IF m = 0 THEN [table |-> [none |-> TRUE, pos |-> <<>>], nodepos |-> nodepos]
        ELSE LET t == TransVect(nodepos[m][1])
                 moved == [n \in DOMAIN nodepos[m] |->
                             IF nodepos[m][n] # Inf THEN nodepos[m][n] + t ELSE Inf]
             IN  [table |-> [table EXCEPT !.pos =
                      [i \in DOMAIN table.pos |->
                         IF /\ i > SumTo(sizes, m - 1) /\ i <= SumTo(sizes, m)
                            /\ moved[i - SumTo(sizes, m - 1)] # Inf
                         THEN moved[i - SumTo(sizes, m - 1)] ELSE table.pos[i]]],
                  nodepos |-> [nodepos EXCEPT ![m] = moved]]

\* variant of GrowBox that leaves the box as it is
GrowBox_same(maxdim) == maxdim
\* self.maxdim = self.maxdim * scaleing_factor: the three edges are equal and
\* stay equal, kept as the exact fraction num / den
GrowBox(maxdim) ==
    [num |-> maxdim.num * ScaleNum, den |-> maxdim.den * ScaleDen]

\* variant of WalkExhausted that gives the molecule up after the rescale
WalkExhausted_skip ==
    /\ b_pc = "walk" /\ b_mol_idx < Len(b_sizes) /\ ~b_table.none
    /\ b_step = MaxIter
    /\ b_rescales < MaxRescale
    /\ LET r == RescaleSystem(b_sizes, b_nodepos, b_table)
       IN  /\ b_table' = r.table
           /\ b_nodepos' = r.nodepos
    /\ b_maxdim' = GrowBox(b_maxdim)
    /\ b_step' = 0
    /\ b_rescales' = b_rescales + 1
    /\ b_mol_idx' = b_mol_idx + 1
    /\ UNCHANGED <<b_sizes, b_supplied, b_pc, lvars, evars, tvars>>

\* the walk failed with step_count == self.maxiter: _handle_random_walk
\* returns False, _compose_system rescales and tries the same molecule again
WalkExhausted ==
    /\ b_pc = "walk" /\ b_mol_idx < Len(b_sizes) /\ ~b_table.none
    /\ b_step = MaxIter
    /\ b_rescales < MaxRescale
    /\ LET r == RescaleSystem(b_sizes, b_nodepos, b_table)
       IN  /\ b_table' = r.table
           /\ b_nodepos' = r.nodepos
    /\ b_maxdim' = GrowBox(b_maxdim)
    /\ b_step' = 0
    /\ b_rescales' = b_rescales + 1
    /\ UNCHANGED <<b_sizes, b_supplied, b_pc, b_mol_idx, lvars, evars, tvars>>

\* RandomWalk is handed positions = None
WalkOnNone ==
    /\ b_pc = "walk" /\ b_mol_idx < Len(b_sizes) /\ b_table.none
    /\ b_pc' = "crashed"
    /\ UNCHANGED <<b_sizes, b_supplied, b_mol_idx, b_step, b_table, b_maxdim, b_nodepos,
                   b_rescales, lvars, evars, tvars>>

\* while mol_idx < mol_tot is over
ComposeDone ==
    /\ b_pc = "walk" /\ b_mol_idx = Len(b_sizes)
    /\ b_pc' = "done"
    /\ UNCHANGED <<b_sizes, b_supplied, b_mol_idx, b_step, b_table, b_maxdim, b_nodepos,
                   b_rescales, lvars, evars, tvars>>

BuildNext ==
    \/ NoCoordinateFile
    \/ AddPositionsFromFile
    \/ PrepareStep
    \/ WalkSuccess
    \/ WalkRetry
    \/ WalkExhausted
    \/ WalkOnNone
    \/ ComposeDone

SpecBuild == BuildInit /\ [][BuildNext]_vars

\* ---- Properties of placement
\* C4: in a completed assembly every two placed atoms are at least the
\* minimum distance of their type pair apart, whatever walks and rescales
\* led there.
C4_MinimumDistance ==
    (b_pc = "done" /\ ~b_table.none) =>
        \A i, j \in Placed(b_table) :
            i # j => Abs(b_table.pos[i] - b_table.pos[j]) >= MinDist

\* C5: the assembler stops: once more than the configured maximum number of
\* rescale-and-retry rounds were made it is no longer placing molecules.
C5_RescaleBudget ==
    b_rescales > MaxIter => b_pc # "walk"

\* C11: at assembler setup the position table holds the supplied position
\* of every atom that has one and 'undetermined' for every other atom, so
\* the atoms left to place are exactly those without a supplied position.
C11_PositionTable ==
    (b_pc = "walk" /\ b_mol_idx = 0 /\ b_step = 0 /\ b_rescales = 0) =>
        \A m \in DOMAIN b_sizes : \A n \in 1..b_sizes[m] :
            b_table.pos[Gndx(b_sizes, m, n - 1)] = b_supplied[m][n]

\* C12: molecules are placed in system order: the index of the molecule
\* being attempted never decreases, it advances by one only in a step in
\* which the walk of the current molecule succeeded (all its atoms enter the
\* table), and a failed walk with its rescale leaves the index where it is.
C12_SystemOrder ==
    [][ \/ b_mol_idx' = b_mol_idx
        \/ /\ b_mol_idx' = b_mol_idx + 1
           /\ b_rescales' = b_rescales
           /\ b_pc = "walk" /\ ~b_table'.none
           /\ \A n \in 1..b_sizes[b_mol_idx + 1] :
                 b_table'.pos[Gndx(b_sizes, b_mol_idx + 1, n - 1)] # Inf ]_vars
\* a molecule was retried after a rescale and the assembly went on to the end
C12_Witness ==
    b_pc = "done" /\ b_rescales >= 1 /\ b_mol_idx = Len(b_sizes) /\ Len(b_sizes) >= 2

\* C13: for a chain of residues that all expand to single-residue blocks the
\* bond list of the atom graph after add_blocks is the concatenation, in
\* residue order, of the blocks' bond lists, the atom ids shifted by the
\* number of atoms of all earlier blocks, the parameters as in the block.
AllSingleResidue(chain) ==
    \A i \in DOMAIN chain :
        /\ chain[i] \in BlockNames
        /\ Cardinality(BlockResids(Blocks(chain[i]))) = 1
        /\ ~IsMultiResidue(Blocks(chain[i]))
RECURSIVE AtomsBefore(_, _)
AtomsBefore(chain, i) ==
    IF i = 1 THEN 0
    ELSE AtomsBefore(chain, i - 1) + Len(Blocks(chain[i - 1]).atoms)
ShiftedBonds(chain, i) ==
    [j \in DOMAIN Blocks(chain[i]).bonds |->
        <<Blocks(chain[i]).bonds[j][1] + AtomsBefore(chain, i),
          Blocks(chain[i]).bonds[j][2] + AtomsBefore(chain, i),
          Blocks(chain[i]).bonds[j][3]>>]
C13_BondList ==
    (e_pc = "done" /\ AllSingleResidue(e_chain)) =>
        e_mol.bonds = Flatten([i \in DOMAIN e_chain |-> ShiftedBonds(e_chain, i)])
\* two blocks with bonds of their own, the second one shifted
C13_Witness ==
    /\ e_pc = "done" /\ AllSingleResidue(e_chain)
    /\ \E i \in DOMAIN e_chain :
          /\ i > 1
          /\ Blocks(e_chain[i]).bonds # <<>>
          /\ Blocks(e_chain[1]).bonds # <<>>
          /\ e_chain[i] # e_chain[1]

\* C14: expanding a block of residues r1 < ... < rN at node k names the
\* nodes k .. k+N-1 after the residues of the block in residue-id order and
\* sets their links flag to false; a node below k keeps id, name and the
\* edges to other nodes below k; a node above k is found at id + (N-1) with
\* its name and its edges.
ResnameOfResid(block, r) ==
    block.atoms[CHOOSE i \in DOMAIN block.atoms : block.atoms[i].resid = r].resname
MovedTo(n, k, offset) == IF n > k THEN n + offset ELSE n
ExpansionFrame(rec, meta) ==
    LET k == rec.node
        rs == SortedSeq(BlockResids(rec.block))
        offset == rec.n_res - 1
        below == {n \in rec.before : n < k}
    IN  /\ \A j \in DOMAIN rs :
              /\ (k + j - 1) \in ENodes(meta)
              /\ meta.resname[k + j - 1] = ResnameOfResid(rec.block, rs[j])
              /\ meta.links[k + j - 1] = "false"
        /\ \A n \in rec.before \ {k} :
              /\ MovedTo(n, k, offset) \in ENodes(meta)
              /\ meta.resname[MovedTo(n, k, offset)] = rec.meta.resname[n]
        /\ {e \in meta.edges : e \subseteq below}
              = {e \in rec.meta.edges : e \subseteq below}
        /\ \A e \in rec.meta.edges :
              k \notin e => {MovedTo(n, k, offset) : n \in e} \in meta.edges
C14_ExpansionNamesAndEdges ==
    g_exp.valid => ExpansionFrame(g_exp, e_meta)

\* C15: when a residue names a block the force field does not have, the
\* call raises and leaves no partial output: the stored atom graph and the
\* residue graph are as before the call.
C15_NoPartialOutput ==
    e_pc = "noblock" =>
        /\ ~e_stored.set
        /\ e_meta = MetaFromChain(e_chain)

\* C16: add_blocks does not return an atom graph when a residue of the
\* chain has a block with zero atoms.
HasEmptyBlock(chain) ==
    \E i \in DOMAIN chain :
        chain[i] \in BlockNames /\ Blocks(chain[i]).atoms = <<>>
C16_EmptyBlockIsFatal ==
    e_pc = "done" => ~HasEmptyBlock(e_chain)

\* ---- Properties of candidate discovery (_get_links, get_subgraphs)
GotMeta == mols[g_get.mol].meta
GotNames == GetEdgeResname(GotMeta, g_get.edge)
\* C17: every candidate _get_links returns has the connectivity it needs in
\* the residue graph itself: each of its residue ids is a node, and each two
\* consecutive distinct ids are joined by an edge.
CandidateIds(cand) == [j \in DOMAIN cand.resids |-> cand.resids[j] - 1]
ReallyConnected(meta, ids) ==
    /\ \A j \in DOMAIN ids : ids[j] \in MetaNodes(meta)
    /\ \A j \in 1..(Len(ids) - 1) :
          ids[j] # ids[j + 1] => {ids[j], ids[j + 1]} \in MetaEdgeSet(meta)
C17_RealConnectivity ==
    (g_get.valid /\ ~g_get.err) =>
        \A k \in DOMAIN g_get.cands :
            ReallyConnected(GotMeta, CandidateIds(g_get.cands[k]))

\* C18: for a link with a wildcard order get_subgraphs enumerates, at each
\* wildcard position, exactly the residues within shortest-path distance
\* (number of distinct order values - 1) of u, and its tuples are the
\* product over the wildcard positions with u + order at the fixed ones.
HasWildcard(orders) == \E i \in DOMAIN orders : orders[i].wild
DistinctOrderCount(orders) == Cardinality(Range(orders))
WithinDistance(meta, u, d) == Ball(meta, u, d) \ {u}
ExpectedTuples(meta, orders, u) ==
    {t \in [DOMAIN orders -> 0..(meta.n + Len(orders))] :
        \A i \in DOMAIN orders :
            IF orders[i].wild
            THEN t[i] \in WithinDistance(meta, u, DistinctOrderCount(orders) - 1)
            ELSE t[i] = u + orders[i].o}
C18_WildcardNeighbourhood ==
    g_get.valid =>
        \A li \in DOMAIN g_get.seen :
            (/\ g_get.seen[li].considered
             /\ ~g_get.seen[li].sub.err
             /\ HasWildcard(Orders(g_ff0[li])))
            => /\ Range(g_get.seen[li].sub.idxs)
                    = ExpectedTuples(GotMeta, Orders(g_ff0[li]), g_get.edge[1])
               /\ Len(g_get.seen[li].sub.idxs)
                    = Cardinality(Range(g_get.seen[li].sub.idxs))

\* C19: _get_links looks at a link for the edge (u,v) exactly when the link
\* is not flagged explicit (flag absent or false) and its residue names
\* include the names of u and of v.
C19_LinkConsidered ==
    g_get.valid =>
        \A li \in DOMAIN g_get.seen :
            g_get.seen[li].reached =>
                (g_get.seen[li].considered
                   <=> /\ g_ff0[li].explicit # "true"
                       /\ GotNames[1] \in GetLinkResnames(g_ff0[li])
                       /\ GotNames[2] \in GetLinkResnames(g_ff0[li]))

\* C20: for a link whose orders are all fixed integers get_subgraphs yields
\* exactly one tuple, u + order for each pattern node, and the candidates
\* _get_links returns for the link are that tuple plus one; with or without
\* an order 0 among them.
AllFixed(orders) == \A i \in DOMAIN orders : ~orders[i].wild
FixedTuple(orders, u) == [i \in DOMAIN orders |-> u + orders[i].o]
C20_FixedOrderCandidate ==
    g_get.valid =>
        \A li \in DOMAIN g_get.seen :
            (g_get.seen[li].considered /\ AllFixed(Orders(g_ff0[li])))
            => /\ ~g_get.seen[li].sub.err
               /\ g_get.seen[li].sub.idxs
                    = <<FixedTuple(Orders(g_ff0[li]), g_get.edge[1])>>
               /\ \A k \in DOMAIN g_get.cands :
                     g_get.cands[k].link = li =>
                        CandidateIds(g_get.cands[k])
                           = FixedTuple(Orders(g_ff0[li]), g_get.edge[1])

\* C21: after a successful match the atom graph holds, for every interaction
\* of the link, one interaction of the same type on the link's atoms
\* remapped through the match, its literal parameters as in the link, its
\* deferred parameters replaced by their value on (atom graph, match); and
\* each two consecutive atoms of the remapped tuple are joined by an edge.
MatchOf(mol, link, resids) ==
    [i \in DOMAIN link.nodes |-> TheAtom(mol, link.nodes[i], resids[i])]
ExpectedInteraction(mol, link, resids, ty, k) ==
    LET match == MatchOf(mol, link, resids)
        it == link.inter[ty][k]
    IN  [atoms |-> [j \in DOMAIN it.atoms |-> match[it.atoms[j]]],
         params |-> [j \in DOMAIN it.params |->
                       IF it.params[j].fn THEN Lit(100 + match[1])
                       ELSE it.params[j]]]
BlockBonded(block, r1, r2) ==
    \E i \in DOMAIN block.bonds :
        {block.atoms[block.bonds[i][1] + 1].resid,
         block.atoms[block.bonds[i][2] + 1].resid} = {r1, r2}
NodesJoined(meta, a, b) == a # b /\ {a, b} \in meta.edges
C22_BlockEdges ==
    g_exp.valid =>
        /\ \A r1, r2 \in BlockResids(g_exp.block) :
              r1 # r2 =>
                 (NodesJoined(e_meta, NodeToResid(r1, g_exp.node),
                              NodeToResid(r2, g_exp.node))
                    <=> BlockBonded(g_exp.block, r1, r2))
        /\ \A e \in e_meta.edges : Cardinality(e) = 2

\* C23: explicit links are applied in one pass over the system, after the
\* residue-graph edges of all molecules have been resolved: as long as some
\* molecule has not had its edges resolved, no molecule holds an
\* interaction of an explicit link.
EdgesResolvedForAll ==
    \/ l_runs > Len(mols)
    \/ l_runs = Len(mols) /\ l_pc \in {"explicit", "idle", "error"}
C23_ExplicitPassOnce ==
    (\E m \in DOMAIN mols : ExplicitEntries(mols[m]) # {}) => EdgesResolvedForAll

\* C24: on every rescale each molecule that has a position is translated
\* rigidly: every positioned atom of it moves by the same vector, the one
\* along the direction of its first atom, and the entry of the position
\* table of that atom gets the same new value as the node.
MovedRigidly(m) ==
    \A n \in DOMAIN b_nodepos[m] :
        b_nodepos[m][n] # Inf =>
            /\ b_nodepos'[m][n] = b_nodepos[m][n] + TransVect(b_nodepos[m][1])
            /\ ~b_table'.none
            /\ b_table'.pos[Gndx(b_sizes, m, n - 1)] = b_nodepos'[m][n]
C24_RigidTranslation ==
    [][b_rescales' = b_rescales + 1 =>
          \A m \in DOMAIN b_nodepos : b_nodepos[m][1] # Inf => MovedRigidly(m)]_vars

\* C25: the box never shrinks: a failed placement of a molecule multiplies
\* the box edge by 1.1, a successful placement leaves the box as it is, and
\* after r rescales the edge is the initial edge times 1.1^r.
RECURSIVE Pow(_, _)
Pow(b, e) == IF e = 0 THEN 1 ELSE b * Pow(b, e - 1)
FailedPlacement ==
    /\ b_pc = "walk" /\ b_pc' = "walk"
    /\ b_step = MaxIter /\ b_step' = 0 /\ b_mol_idx' = b_mol_idx
BoxStep ==
    /\ \/ b_maxdim' = b_maxdim
       \/ b_maxdim'.num * b_maxdim.den > b_maxdim.num * b_maxdim'.den
    /\ FailedPlacement =>
          /\ b_maxdim'.num = b_maxdim.num * ScaleNum
          /\ b_maxdim'.den = b_maxdim.den * ScaleDen
    /\ b_mol_idx' = b_mol_idx + 1 => b_maxdim' = b_maxdim
C25_BoxGrowth ==
    /\ [](/\ b_maxdim.num = BoxEdge0 * Pow(ScaleNum, b_rescales)
          /\ b_maxdim.den = Pow(ScaleDen, b_rescales))
    /\ [][BoxStep]_vars
C25_Witness ==
    b_pc = "done" /\ b_rescales = 2 /\ Len(b_sizes) >= 2

\* C26: the position table survives every rescale: after a rescale, also
\* one made while no molecule has a position yet, the table handed to the
\* next walk is a table with one entry for every atom of the system.
C26_TableSurvivesRescale ==
    b_rescales > 0 =>
        /\ ~b_table.none
        /\ DOMAIN b_table.pos = 1..SumTo(b_sizes, Len(b_sizes))

\* C27: a link whose pattern nodes have only the orders 0 and 1, applied
\* while the residue-graph edge (u, v) is resolved, writes interactions (and
\* with them bond edges) only on atoms of residue u and of residue v, also
\* when v is not u + 1.
OnlyOrders01(link) ==
    /\ link.nodes # <<>>
    /\ \A i \in DOMAIN link.nodes :
          ~link.nodes[i].wild /\ link.nodes[i].order \in {0, 1}
C27_OnlyEdgeResidues ==
    [][(/\ l_pc = "edges" /\ l_cands # <<>>
        /\ g_last'.ok
        /\ OnlyOrders01(ff[Head(l_cands).link])) =>
          \A ty \in Range(InterTypes) :
              \A k \in DOMAIN ff[Head(l_cands).link].inter[ty] :
                  \A a \in Range(ExpectedInteraction(mols[l_mol], ff[Head(l_cands).link],
                                                     Head(l_cands).resids, ty, k).atoms) :
                      mols[l_mol].atoms[a + 1].resid
                          \in {g_get.edge[1] + 1, g_get.edge[2] + 1}]_vars

\* ------------------------------------------------------------------------
\* Topology reading: TOPDirector (top_parser.py) and Topology.gen_pairs
\* (topology.py)
\* ------------------------------------------------------------------------
\* Topology.__init__ and TOPDirector.__init__
TopInit ==
    /\ t_pc = "parse" /\ t_n = 0 /\ t_last = [kind |-> "", word |-> ""]
    /\ t_section = ""
    /\ t_meta = NoMeta /\ t_itp = NoItp /\ t_itp_lines = 0 /\ t_defines = {}
    /\ t_defaults = NoDefaults /\ t_atom_types = EmptyDict
    /\ t_nonbond = NoNonbond /\ t_types = <<>> /\ g_given = EmptyDict
    /\ LinksIdle /\ ExpandIdle /\ BuildIdle

\* the parser reads one more line
ReadLine(line) ==
    /\ t_pc = "parse" /\ t_n < MaxLines
    /\ t_n' = t_n + 1
    /\ t_last' = line

\* parse_top_pragma
ParseTopPragma ==
    \E line \in PragmaLines :
        /\ ReadLine(line)
        /\ IF line.kind = "#endif"
           THEN IF Truthy(t_itp)
                THEN /\ t_itp' = Append1(t_itp)
                     /\ UNCHANGED <<t_pc, t_meta, t_defines>>
                ELSE IF ~t_meta.set
                THEN /\ t_pc' = "ioerror"
                     /\ UNCHANGED <<t_itp, t_meta, t_defines>>
                ELSE UNCHANGED <<t_pc, t_itp, t_meta, t_defines>>
           ELSE IF line.kind \in {"#ifdef", "#ifndef"}
           THEN IF Truthy(t_itp)
                THEN /\ t_itp' = Append1(t_itp)
                     /\ UNCHANGED <<t_pc, t_meta, t_defines>>
                ELSE IF ~t_meta.set
                THEN /\ t_meta' = [set |-> TRUE, tag |-> line.word,
                                   condition |-> IF line.kind = "#ifdef"
                                                 THEN "ifdef" ELSE "ifndef"]
                     /\ UNCHANGED <<t_pc, t_itp, t_defines>>
                ELSE /\ t_pc' = "ioerror"
                     /\ UNCHANGED <<t_itp, t_meta, t_defines>>
           ELSE IF line.kind = "#define"
           THEN /\ t_defines' = t_defines \cup {line.word}
                /\ UNCHANGED <<t_pc, t_itp, t_meta>>
           ELSE /\ t_pc' = "ioerror"
                /\ UNCHANGED <<t_itp, t_meta, t_defines>>
        /\ UNCHANGED <<t_section, t_itp_lines, t_defaults, t_atom_types, t_nonbond,
                       t_types, g_given, lvars, evars, bvars>>

\* parse_header, with _new_itp for [ moleculetype ]
ParseHeader ==
    \E name \in SectionNames :
        /\ ReadLine([kind |-> "header", word |-> name])
        /\ t_section' = name
        /\ IF name = "moleculetype"
           THEN /\ t_itp_lines' = IF Truthy(t_itp) THEN t_itp_lines + 1 ELSE t_itp_lines
                /\ t_itp' = [none |-> FALSE, len |-> 1]
           ELSE /\ t_itp' = IF t_itp.none THEN t_itp ELSE Append1(t_itp)
                /\ UNCHANGED t_itp_lines
        /\ UNCHANGED <<t_pc, t_meta, t_defines, t_defaults, t_atom_types, t_nonbond,
                       t_types, g_given, lvars, evars, bvars>>

\* parse_section before any header: no parser for the empty section
ParseNoSection ==
    /\ t_section = ""
    /\ ReadLine([kind |-> "data", word |-> ""])
    /\ t_pc' = "ioerror"
    /\ UNCHANGED <<t_section, t_meta, t_itp, t_itp_lines, t_defines, t_defaults,
                   t_atom_types, t_nonbond, t_types, g_given, lvars, evars, bvars>>

\* _defaults
Defaults ==
    /\ t_section = "defaults"
    /\ \E line \in DefaultsLines :
          /\ ReadLine([kind |-> "data", word |-> "defaults"])
          /\ t_defaults' = line
    /\ UNCHANGED <<t_pc, t_section, t_meta, t_itp, t_itp_lines, t_defines,
                   t_atom_types, t_nonbond, t_types, g_given, lvars, evars, bvars>>

\* _atomtypes
Atomtypes ==
    /\ t_section = "atomtypes"
    /\ \E line \in AtomtypesLines :
          /\ ReadLine([kind |-> "data", word |-> line.name])
          /\ t_atom_types' = DictPut(t_atom_types, line.name,
                                     [nb1 |-> line.nb1, nb2 |-> line.nb2])
    /\ UNCHANGED <<t_pc, t_section, t_meta, t_itp, t_itp_lines, t_defines,
                   t_defaults, t_nonbond, t_types, g_given, lvars, evars, bvars>>

\* _nonbond_params: the key is the tuple (atom_1, atom_2)
NonbondParams ==
    /\ t_section = "nonbond_params"
    /\ \E line \in NonbondLines :
          /\ ReadLine([kind |-> "data", word |-> line.atoms[1]])
          /\ t_nonbond' = [t_nonbond EXCEPT !.tup =
                DictPut(t_nonbond.tup, line.atoms,
                        [f |-> line.f, nb1 |-> line.nb1, nb2 |-> line.nb2])]
    /\ UNCHANGED <<t_pc, t_section, t_meta, t_itp, t_itp_lines, t_defines,
                   t_defaults, t_atom_types, t_types, g_given, lvars, evars, bvars>>

\* _type_params for [ bondtypes ]: the interaction is stored with
\* meta = self.current_meta
TypeParams ==
    /\ t_section = "bondtypes"
    /\ ReadLine([kind |-> "data", word |-> "bondtypes"])
    /\ t_types' = Append(t_types, t_meta)
    /\ UNCHANGED <<t_pc, t_section, t_meta, t_itp, t_itp_lines, t_defines,
                   t_defaults, t_atom_types, t_nonbond, g_given, lvars, evars, bvars>>

\* _molecule: self.current_itp.append(line)
MoleculeLine ==
    /\ t_section = "moleculetype"
    /\ ReadLine([kind |-> "data", word |-> "moleculetype"])
    /\ t_itp' = Append1(t_itp)
    /\ UNCHANGED <<t_pc, t_section, t_meta, t_itp_lines, t_defines, t_defaults,
                   t_atom_types, t_nonbond, t_types, g_given, lvars, evars, bvars>>

\* finalize, at the end of the file (the file has no [ molecules ] section)
Finalize ==
    /\ t_pc = "parse"
    /\ t_itp_lines' = IF Truthy(t_itp) THEN t_itp_lines + 1 ELSE t_itp_lines
    /\ t_pc' = IF t_meta.set THEN "ioerror" ELSE "parsed"
    /\ g_given' = t_nonbond.tup
    /\ UNCHANGED <<t_n, t_last, t_section, t_meta, t_itp, t_defines, t_defaults,
                   t_atom_types, t_nonbond, t_types, lvars, evars, bvars>>

\* ---- Topology.gen_pairs
\* x ** 0.5, for the squares the inputs give
Sqrt(x) == CHOOSE r \in 0..x : r * r = x
\* sig = (sig_A + sig_B)/2.0, eps = (eps_A * eps_B)**0.5
LorentzBerthelotRule(sig_A, sig_B, eps_A, eps_B) ==
    [nb1 |-> (sig_A + sig_B) \div 2, nb2 |-> Sqrt(eps_A * eps_B)]
\* C6 = (C6_A * C6_B)**0.5, C12 = (C12_A * C12_B)**0.5
GeometricRule(C6_A, C6_B, C12_A, C12_B) ==
    [nb1 |-> Sqrt(C6_A * C6_B), nb2 |-> Sqrt(C12_A * C12_B)]
CombRule(rule, types, A, B) ==
    IF rule = 2
    THEN GeometricRule(types[A].nb1, types[B].nb1, types[A].nb2, types[B].nb2)
    ELSE LorentzBerthelotRule(types[A].nb1, types[B].nb1, types[A].nb2, types[B].nb2)
\* the loop over combinations(self.atom_types, r=2), when gen-pairs is yes
GeneratedPairs(defaults, types, nonbond) ==
    LET new == IF defaults.gen = "yes"
               THEN {{A, B} : A, B \in DOMAIN types} \ ({{A} : A \in DOMAIN types}
                                                       \cup DOMAIN nonbond.fs)
               ELSE {}
    IN  [k \in DOMAIN nonbond.fs \cup new |->
           IF k \in new
           THEN LET A == CHOOSE a \in k : TRUE
                    B == CHOOSE b \in k : b # A
                IN  CombRule(defaults.rule, types, A, B)
           ELSE nonbond.fs[k]]
\* the loop over self.atom_types: the self pairs
SelfPairs(types, fs) ==
    [k \in DOMAIN fs \cup {{A} : A \in DOMAIN types} |->
       IF k \in DOMAIN fs THEN fs[k]
       ELSE LET A == CHOOSE a \in k : TRUE
            IN  [nb1 |-> types[A].nb1, nb2 |-> types[A].nb2]]
\* comb_funcs[self.defaults["comb-rule"]] and self.defaults["gen-pairs"]
\* raise KeyError for a missing key
GenPairs ==
    /\ t_pc = "parsed"
    /\ IF t_defaults.rule = 0 \/ t_defaults.gen = "absent"
       THEN /\ t_pc' = "keyerror"
            /\ UNCHANGED t_nonbond
       ELSE /\ t_pc' = "done"
            /\ t_nonbond' = [t_nonbond EXCEPT !.fs =
                  SelfPairs(t_atom_types,
                            GeneratedPairs(t_defaults, t_atom_types, t_nonbond))]
    /\ UNCHANGED <<t_n, t_last, t_section, t_meta, t_itp, t_itp_lines, t_defines,
                   t_defaults, t_atom_types, t_types, g_given, lvars, evars, bvars>>

TopNext ==
    \/ ParseTopPragma
    \/ ParseHeader
    \/ ParseNoSection
    \/ Defaults
    \/ Atomtypes
    \/ NonbondParams
    \/ TypeParams
    \/ MoleculeLine
    \/ Finalize
    \/ GenPairs

SpecTop == TopInit /\ [][TopNext]_vars

\* ---- Properties of topology reading
\* C28: outside a moleculetype the #ifdef/#ifndef and #endif lines drive a
\* machine of two states.  An #ifdef or #ifndef read while no section is
\* open opens one; an #endif read while one is open closes it, so that no
\* section is open afterwards; an #endif with no open section and an #ifdef
\* or #ifndef with an open section raise IOError; and finalize raises
\* IOError exactly when a section is still open.
PragmaStep ==
    (t_pc = "parse" /\ t_n' = t_n + 1 /\ ~Truthy(t_itp)) =>
        /\ (t_last'.kind = "#endif" /\ t_meta.set) =>
              t_pc' = "parse" /\ ~t_meta'.set
        /\ (t_last'.kind = "#endif" /\ ~t_meta.set) => t_pc' = "ioerror"
        /\ (t_last'.kind \in {"#ifdef", "#ifndef"} /\ ~t_meta.set) =>
              t_pc' = "parse" /\ t_meta'.set
        /\ (t_last'.kind \in {"#ifdef", "#ifndef"} /\ t_meta.set) =>
              t_pc' = "ioerror"
FinalizeStep ==
    (t_pc = "parse" /\ t_pc' # "parse" /\ t_n' = t_n) =>
        (t_pc' = "ioerror" <=> t_meta.set)
C28_PragmaMachine ==
    [][PragmaStep /\ FinalizeStep]_vars

\* C29: after gen_pairs every atom type has an entry for its self pair,
\* whatever gen-pairs is; and for a pair whose parameters were given in
\* [ nonbond_params ] there is no generated entry: the pair has exactly one
\* entry, the given one, with the given values.
EntriesOf(pair) ==
    Cardinality({k \in DOMAIN t_nonbond.tup : Range(k) = pair})
        + Cardinality({k \in DOMAIN t_nonbond.fs : k = pair})
C29_GivenPairsWin ==
    t_pc = "done" =>
        /\ \A A \in DOMAIN t_atom_types : EntriesOf({A}) >= 1
        /\ \A k \in DOMAIN g_given :
              /\ Range(k) \notin DOMAIN t_nonbond.fs
              /\ EntriesOf(Range(k)) = 1
              /\ k \in DOMAIN t_nonbond.tup /\ t_nonbond.tup[k] = g_given[k]

====
